---- MODULE Spec2Model ----
\* Live meeting transcription session manager of The_Agent:
\* app/services/meeting_service.py, app/services/transcription_service.py,
\* app/api/v1/meeting.py, app/api/v1/meeting_ws.py and main.py.
\*
\* The program runs on one asyncio event loop: a step of the model is the code a
\* coroutine runs between two suspension points (await on the network, on a sleep,
\* on the executor).  Database calls and the Whisper call are synchronous, so they
\* never split a step.
EXTENDS Integers, Sequences, FiniteSets, TLC

\* ---------------------------------------------------------------- bounds
\* Spec: one meeting, audio up to the flush threshold, two stop or retry tasks
MaxMeetings == 1
MaxBuffer == 10
MaxTasks == 2
\* SpecJoin: two meetings, one frame per flush, one task
JoinMeetings == 2
FewFrames == 1
JoinTasks == 1
\* all specifications
\* SpecRegister, SpecMonitor and FairSpec: one meeting, one task
OneMeeting == 1
OneTask == 1
MaxSessions == 2
\* SpecBroadcast: two subscribers; every other specification: one
TwoConns == 2
OneConn == 1
MaxUsers == 1
MaxLinks == 2
MaxChunks == 2
MaxTime == 120
TickStep == 60

\* the bounds of a specification: meetings created, frames buffered, tasks created,
\* connections opened
Bounds(m, b, t, c) == [meetings |-> m, buffer |-> b, tasks |-> t, conns |-> c]

\* ---------------------------------------------------------------- program constants
GRACE_PERIOD == 90
max_retries == 4
FlushChunks == 10
MinTranscript == 10

Users == 1..MaxUsers
Links == 1..MaxLinks
Conns == 1..TwoConns
\* calendar events of the calendar collaborator: event id -> conferencing link
CalendarEvents == {1}
EventLink(e) == 1
\* texts the speech-to-text engine returns, by their length after strip():
\* 0 is the empty text
SttTexts == {0, 5}
None == 0
\* end_time of a meeting that was not stopped
NoTime == -1

VARIABLES
    now,              \* datetime.utcnow()
    next_id,          \* next primary key of table meetings
    meetings,         \* table meetings: id -> row
    transcripts,      \* table meeting_transcripts, in insertion order
    summaries,        \* table meeting_summaries: set of rows
    next_summary_id,  \* next primary key of table meeting_summaries
    active_meetings,  \* the registry: meeting id -> session (index into sessions)
    sessions,         \* the TranscriptionService objects created so far
    start_pending,    \* meeting ids whose start_meeting_transcription task is scheduled
    tasks,            \* stop_meeting_transcription tasks and retry requests
    conns,            \* the realtime channel handlers
    stop_calls,       \* per session: how often TranscriptionService.stop() ran
    llm_calls,        \* per meeting: completion calls made on behalf of stop
    out               \* what the last step sent out: reply, external calls

vars == <<now, next_id, meetings, transcripts, summaries, next_summary_id,
          active_meetings, sessions, start_pending, tasks, conns,
          stop_calls, llm_calls, out>>

\* sent: the connections a broadcast was delivered to in the step; got, failed,
\* subs: of the broadcast that ended in the step, the connections it was delivered
\* to, those whose send failed and the subscribers when it began
Quiet == [reply |-> "none", id |-> None, user |-> None, link |-> None,
          stt |-> None, llm |-> None, sent |-> {}, got |-> {}, failed |-> {},
          subs |-> {}]

\* ---------------------------------------------------------------- persistence
Ids == DOMAIN meetings

\* MeetingService.update_meeting_status
update_meeting_status(ms, m, status, t) ==
    IF m \in DOMAIN ms
    THEN [ms EXCEPT ![m].status = status, ![m].last_activity = t]
    ELSE ms

\* MeetingService.update_last_activity
update_last_activity(ms, m, t) ==
    IF m \in DOMAIN ms THEN [ms EXCEPT ![m].last_activity = t] ELSE ms

\* MeetingService.create_meeting_session: the new row
NewMeeting(u, l, e, manual, t) ==
    [user_id |-> u, meet_link |-> l, calendar_event_id |-> e, is_manual |-> manual,
     status |-> "active", last_activity |-> t, end_time |-> NoTime]

create_meeting_session(ms, id, u, l, e, manual, t) ==
    [m \in DOMAIN ms \cup {id} |-> IF m = id THEN NewMeeting(u, l, e, manual, t) ELSE ms[m]]

\* the rows of a meeting in meeting_transcripts, ordered by sequence_number
RECURSIVE InsertSorted(_, _)
InsertSorted(row, s) ==
    IF s = <<>> THEN <<row>>
    ELSE IF row.sequence_number < Head(s).sequence_number THEN <<row>> \o s
    ELSE <<Head(s)>> \o InsertSorted(row, Tail(s))

RECURSIVE SortBySeq(_)
SortBySeq(s) == IF s = <<>> THEN <<>> ELSE InsertSorted(Head(s), SortBySeq(Tail(s)))

ChunksOf(ts, m) == SelectSeq(ts, LAMBDA r : r.meeting_id = m)

RECURSIVE JoinLen(_)
JoinLen(s) ==
    IF s = <<>> THEN 0
    ELSE IF Len(s) = 1 THEN Head(s).text
    ELSE Head(s).text + 1 + JoinLen(Tail(s))

\* MeetingService.get_full_transcript: the length of "\n".join of the texts
get_full_transcript(ts, m) ==
    JoinLen(SelectSeq(SortBySeq(ChunksOf(ts, m)), LAMBDA r : r.text > 0))

\* only an empty transcript counts as too short
TooShort_EmptyOnly(full) == full = 0

\* "not full_transcript or len(full_transcript.strip()) < 10"
TooShort(full) == full = 0 \/ full < MinTranscript

\* db.query(MeetingSummary).filter(meeting_id == m).first()
SummariesOf(sums, m) == {r \in sums : r.meeting_id = m}
FirstSummary(sums, m) ==
    IF SummariesOf(sums, m) = {} THEN None
    ELSE (CHOOSE r \in SummariesOf(sums, m) :
             \A q \in SummariesOf(sums, m) : r.id <= q.id).id

\* ---------------------------------------------------------------- TranscriptionService
\* the locals of a broadcast_transcript call that is suspended in a send: the
\* position i of the list iterator, the connection ws it yielded, the list
\* disconnected (failed); and for the record the connections that got the
\* message, the subscribers when the call began, and whether audio_buffer holds
\* a frame that was appended after the last engine call read the file (stale)
NoPass == [i |-> 0, ws |-> None, failed |-> <<>>, got |-> {}, subs |-> {}, stale |-> FALSE]

\* TranscriptionService.__init__ followed by start(): is_running is set before the
\* first suspension, and transcription_loop has passed its first while test
NewSession(m) ==
    [meeting_id |-> m, is_running |-> TRUE, sequence_number |-> 0,
     audio_buffer |-> <<>>, websocket_connections |-> <<>>,
     temp_unlinked |-> FALSE, retry_count |-> 0, loop |-> "sleep", bcast |-> NoPass]

\* what whisper_model.transcribe can do: raise (-1) or return a text
SttOutcomes == {-1} \cup SttTexts

\* the outcomes a pass of session s may have: Whisper reads temp_audio_file by name,
\* so it raises once stop() has unlinked the file; a text that would be persisted is
\* drawn only while the chunk bound leaves room
OutcomesFor(s) ==
    IF s.temp_unlinked THEN {-1}
    ELSE IF s.sequence_number < MaxChunks /\ Len(transcripts) < MaxChunks
    THEN SttOutcomes
    ELSE {-1, 0}

\* the database accepts a row that refers to a meeting: always when the meeting
\* exists; after the meeting was deleted it depends on whether the engine enforces
\* the foreign key (TRUE: the insert raises)
FkChoices(m) == IF m \in Ids THEN {FALSE} ELSE {FALSE, TRUE}

\* MeetingService.save_transcript_chunk
save_transcript_chunk(ts, m, text, seq) ==
    Append(ts, [meeting_id |-> m, sequence_number |-> seq, text |-> text, is_final |-> TRUE])

\* the number of the next chunk, without the increment
NextSeq_Stale(s) == s.sequence_number

\* transcribe_buffer, "self.sequence_number += 1": the number of the next chunk
NextSeq(s) == s.sequence_number + 1

\* the pass counts a number for an empty text as well
SeqAfterEmpty_Counted(s) == s.sequence_number + 1

\* transcribe_buffer, "if text:": an empty text leaves sequence_number as it is
SeqAfterEmpty(s) == s.sequence_number

\* TranscriptionService.transcribe_buffer up to its first suspension (the await in
\* broadcast_transcript), on session object s of meetings table ms.  kind: "skip"
\* the buffer was empty, "raise" the pass raised, "done" it returned, "bcast" it is
\* suspended in the broadcast.  stt: whether the engine was called.
transcribe_buffer(s, ms, res, fk) ==
    LET m == s.meeting_id
        seq == NextSeq(s)
    IN  IF s.audio_buffer = <<>> THEN
            [kind |-> "skip", session |-> s, ts |-> transcripts, ms |-> ms, stt |-> FALSE]
        ELSE IF res = -1 THEN
            [kind |-> "raise", session |-> s, ts |-> transcripts, ms |-> ms, stt |-> TRUE]
        ELSE IF res = 0 THEN
            [kind |-> "done",
             session |-> [s EXCEPT !.sequence_number = SeqAfterEmpty(s),
                                   !.audio_buffer = <<>>, !.temp_unlinked = FALSE],
             ts |-> transcripts, ms |-> ms, stt |-> TRUE]
        ELSE IF fk THEN
            [kind |-> "raise", session |-> [s EXCEPT !.sequence_number = seq],
             ts |-> transcripts, ms |-> ms, stt |-> TRUE]
        ELSE IF s.websocket_connections = <<>> THEN
            [kind |-> "done",
             session |-> [s EXCEPT !.sequence_number = seq, !.audio_buffer = <<>>,
                                   !.temp_unlinked = FALSE],
             ts |-> save_transcript_chunk(transcripts, m, res, seq),
             ms |-> update_last_activity(ms, m, now), stt |-> TRUE]
        ELSE
            [kind |-> "bcast",
             session |-> [s EXCEPT !.sequence_number = seq],
             ts |-> save_transcript_chunk(transcripts, m, res, seq),
             ms |-> update_last_activity(ms, m, now), stt |-> TRUE]

\* ws.send_json succeeds on a connection that is open on both sides
CanSend(c) == conns[c].state \in {"open", "pass"} /\ conns[c].alive

SetOf(list) == {list[k] : k \in 1..Len(list)}

\* broadcast_transcript up to its first send: the iterator yields the first
\* connection of the list
StartBroadcast(s) ==
    [i |-> 1, ws |-> s.websocket_connections[1], failed |-> <<>>, got |-> {},
     subs |-> SetOf(s.websocket_connections), stale |-> FALSE]

\* broadcast_transcript, "for ws in disconnected: self.websocket_connections.
\* remove(ws)": list.remove raises ValueError for a connection that is not in the
\* list (any more); what was removed before stays removed
RECURSIVE RemoveDisconnected(_, _)
RemoveDisconnected(list, failed) ==
    IF failed = <<>> THEN [list |-> list, raised |-> FALSE]
    ELSE IF Head(failed) \notin SetOf(list) THEN [list |-> list, raised |-> TRUE]
    ELSE RemoveDisconnected(SelectSeq(list, LAMBDA x : x # Head(failed)), Tail(failed))

\* TranscriptionService.broadcast_transcript and the rest of transcribe_buffer,
\* from a suspension on: the send in progress returns or raises; then the iterator
\* yields the connection at the next position of the list as it is now ("send"),
\* or the loop ends, the failed connections are removed and the buffer is cleared
\* ("done"), unless the removal raises ("raise")
broadcast_transcript(s, bc) ==
    LET ok == CanSend(bc.ws)
        failed == IF ok THEN bc.failed ELSE Append(bc.failed, bc.ws)
        got == IF ok THEN bc.got \cup {bc.ws} ELSE bc.got
        list == s.websocket_connections
        rm == RemoveDisconnected(list, failed)
    IN  IF bc.i + 1 <= Len(list)
        THEN [kind |-> "send", session |-> s, sent |-> got \ bc.got,
              bc |-> [i |-> bc.i + 1, ws |-> list[bc.i + 1], failed |-> failed,
                      got |-> got, subs |-> bc.subs, stale |-> bc.stale]]
        ELSE IF rm.raised
        THEN [kind |-> "raise", session |-> [s EXCEPT !.websocket_connections = rm.list],
              sent |-> got \ bc.got,
              bc |-> [NoPass EXCEPT !.failed = failed, !.got = got, !.subs = bc.subs]]
        ELSE [kind |-> "done",
              session |-> [s EXCEPT !.websocket_connections = rm.list,
                                    !.audio_buffer = <<>>, !.temp_unlinked = FALSE],
              sent |-> got \ bc.got,
              bc |-> [NoPass EXCEPT !.failed = failed, !.got = got, !.subs = bc.subs]]

\* process_audio_chunk appends a frame to audio_buffer and to temp_audio_file
\* (v TRUE); whisper_model.transcribe reads the file, which holds every frame of
\* the buffer, and a pass that ends clears the buffer (v FALSE): the passes of
\* session sid that are suspended in their broadcast take note, when the step
\* does so (on); but: the connection whose pass the step runs
StaleSession(s, v, on) ==
    IF on /\ s.loop = "pass" THEN [s EXCEPT !.bcast.stale = v] ELSE s

StaleConns(cs, sid, v, on, but) ==
    [c \in DOMAIN cs |->
        IF on /\ c # but /\ cs[c].state = "pass" /\ cs[c].session = sid
        THEN [cs[c] EXCEPT !.bcast.stale = v]
        ELSE cs[c]]

\* what a step that ran transcribe_buffer up to its first suspension sends out
CallOut(sid, p) ==
    [Quiet EXCEPT !.stt = IF p.stt THEN sid ELSE None,
                  !.id = IF p.kind \in {"raise", "done"} THEN sid ELSE None,
                  !.reply = CASE p.kind = "raise" -> "pass:raised"
                              [] p.kind = "done"  -> "pass:done"
                              [] OTHER            -> "none"]

\* transcription_loop: the while test after an iteration
LoopTest(s) == [s EXCEPT !.loop = IF s.is_running THEN "sleep" ELSE "done"]

\* transcription_loop: the except branch
LoopExcept(s) ==
    IF s.retry_count + 1 >= max_retries
    THEN [s EXCEPT !.retry_count = @ + 1, !.is_running = FALSE, !.loop = "done"]
    ELSE [s EXCEPT !.retry_count = @ + 1, !.loop = "backoff"]

\* start_meeting_transcription up to "await transcription_service.start()"
start_meeting_transcription(m) ==
    /\ IF m \notin Ids
       THEN UNCHANGED <<meetings, sessions, active_meetings, stop_calls>>
       ELSE /\ meetings' = IF meetings[m].status # "active"
                           THEN update_meeting_status(meetings, m, "active", now)
                           ELSE meetings
            /\ sessions' = Append(sessions, NewSession(m))
            /\ stop_calls' = Append(stop_calls, 0)
            /\ active_meetings' =
                   [k \in DOMAIN active_meetings \cup {m} |->
                       IF k = m THEN Len(sessions) + 1 ELSE active_meetings[k]]
    /\ out' = Quiet
    /\ UNCHANGED <<now, next_id, transcripts, summaries, next_summary_id, tasks,
                   conns, llm_calls>>

\* the background task of join_meeting or of the calendar trigger runs
StartTranscription(m) ==
    /\ m \in start_pending
    /\ start_pending' = start_pending \ {m}
    /\ start_meeting_transcription(m)

\* start_meeting_transcription called for a meeting that has a registry entry
Register(m) ==
    /\ m \in DOMAIN active_meetings
    /\ Len(sessions) < MaxSessions
    /\ start_meeting_transcription(m)
    /\ UNCHANGED start_pending

\* transcription_loop: the sleep(3) ends and the iteration runs
TimerWake(sid) ==
    /\ sid \in DOMAIN sessions
    /\ sessions[sid].loop = "sleep"
    /\ \E res \in OutcomesFor(sessions[sid]), fk \in FkChoices(sessions[sid].meeting_id) :
         LET p == transcribe_buffer(sessions[sid], meetings, res, fk)
             s2 == CASE p.kind = "skip"  -> LoopTest(p.session)
                     [] p.kind = "raise" -> LoopExcept(p.session)
                     [] p.kind = "done"  -> LoopTest([p.session EXCEPT !.retry_count = 0])
                     [] p.kind = "bcast" -> [p.session EXCEPT !.loop = "pass",
                                                             !.bcast = StartBroadcast(p.session)]
         IN  /\ sessions' = [sessions EXCEPT ![sid] = s2]
             /\ transcripts' = p.ts
             /\ meetings' = p.ms
             /\ conns' = StaleConns(conns, sid, FALSE, p.stt, None)
             /\ out' = CallOut(sid, p)
    /\ UNCHANGED <<now, next_id, summaries, next_summary_id, active_meetings,
                   start_pending, tasks, stop_calls, llm_calls>>

\* transcription_loop: the sleep(2) of the except branch ends
BackoffWake(sid) ==
    /\ sid \in DOMAIN sessions
    /\ sessions[sid].loop = "backoff"
    /\ sessions' = [sessions EXCEPT ![sid] = LoopTest(@)]
    /\ out' = Quiet
    /\ UNCHANGED <<now, next_id, meetings, transcripts, summaries, next_summary_id,
                   active_meetings, start_pending, tasks, conns, stop_calls, llm_calls>>

\* ---------------------------------------------------------------- realtime channel
NewConn == [state |-> "new", meeting_id |-> None, session |-> None, alive |-> FALSE,
            bcast |-> NoPass]
ClosedConn == [state |-> "closed", meeting_id |-> None, session |-> None, alive |-> FALSE,
               bcast |-> NoPass]

InList(c, list) == \E i \in 1..Len(list) : list[i] = c

\* TranscriptionService.remove_websocket
remove_websocket(s, c) ==
    [s EXCEPT !.websocket_connections = SelectSeq(@, LAMBDA x : x # c)]

\* the finally block of meeting_websocket: the connection is removed from the
\* session the registry holds now for the meeting, if any
Cleanup(ss, c) ==
    LET m == conns[c].meeting_id
    IN  IF m \in DOMAIN active_meetings
        THEN [ss EXCEPT ![active_meetings[m]] = remove_websocket(@, c)]
        ELSE ss

\* meeting_websocket up to its first receive: a client opens the channel of a
\* meeting that is in the registry.  Every connection is a WebSocket object of its
\* own: c is opened once.
Connect(c, m, B) ==
    /\ c <= B.conns
    /\ conns[c].state = "new"
    /\ m \in Ids
    /\ m \in DOMAIN active_meetings
    /\ sessions' = [sessions EXCEPT ![active_meetings[m]].websocket_connections =
                        Append(@, c)]
    /\ conns' = [conns EXCEPT ![c] = [state |-> "open", meeting_id |-> m,
                                      session |-> active_meetings[m], alive |-> TRUE,
                                      bcast |-> NoPass]]
    /\ out' = Quiet
    /\ UNCHANGED <<now, next_id, meetings, transcripts, summaries, next_summary_id,
                   active_meetings, start_pending, tasks, stop_calls, llm_calls>>

\* a binary frame: update_last_activity, then TranscriptionService.process_audio_chunk
ReceiveBytes(c, B) ==
    /\ conns[c].state = "open"
    /\ conns[c].alive
    /\ LET sid == conns[c].session
           s1 == [sessions[sid] EXCEPT !.audio_buffer = Append(@, 1)]
           ms1 == update_last_activity(meetings, conns[c].meeting_id, now)
       IN  /\ Len(sessions[sid].audio_buffer) < B.buffer
           /\ IF Len(s1.audio_buffer) >= FlushChunks
              THEN \E res \in OutcomesFor(s1), fk \in FkChoices(s1.meeting_id) :
                     LET p == transcribe_buffer(s1, ms1, res, fk)
                         others == StaleConns(conns, sid, FALSE, p.stt, c)
                     IN  /\ sessions' = [sessions EXCEPT ![sid] = StaleSession(p.session, FALSE, p.stt)]
                         /\ transcripts' = p.ts
                         /\ meetings' = p.ms
                         /\ conns' = IF p.kind = "bcast"
                                     THEN [others EXCEPT ![c].state = "pass",
                                                        ![c].bcast = StartBroadcast(p.session)]
                                     ELSE others
                         /\ out' = CallOut(sid, p)
              ELSE /\ sessions' = [sessions EXCEPT ![sid] = StaleSession(s1, TRUE, TRUE)]
                   /\ conns' = StaleConns(conns, sid, TRUE, TRUE, c)
                   /\ meetings' = ms1
                   /\ out' = Quiet
                   /\ UNCHANGED transcripts
    /\ UNCHANGED <<now, next_id, summaries, next_summary_id, active_meetings,
                   start_pending, tasks, stop_calls, llm_calls>>

\* what a step of a broadcast sends out
PassOut(sid, r) ==
    IF r.kind = "send" THEN [Quiet EXCEPT !.sent = r.sent]
    ELSE [Quiet EXCEPT !.reply = IF r.kind = "done" THEN "pass:done" ELSE "pass:raised",
                       !.id = sid, !.sent = r.sent, !.got = r.bc.got,
                       !.failed = SetOf(r.bc.failed), !.subs = r.bc.subs]

\* a pass that is suspended in a send of its broadcast resumes.  When the
\* broadcast is over, transcribe_buffer returns to its caller or raises:
\* transcription_loop (caller Timer) resets retry_count and tests is_running, or
\* counts a failure; process_audio_chunk of connection caller logs an exception
Timer == None

PassResume(sid, caller) ==
    /\ sid \in DOMAIN sessions
    /\ IF caller = Timer
       THEN /\ sessions[sid].loop = "pass"
            /\ LET r == broadcast_transcript(sessions[sid], sessions[sid].bcast)
                   s2 == CASE r.kind = "send"  -> [r.session EXCEPT !.bcast = r.bc]
                           [] r.kind = "raise" -> LoopExcept([r.session EXCEPT !.bcast = NoPass])
                           [] r.kind = "done"  ->
                                LoopTest([r.session EXCEPT !.bcast = NoPass, !.retry_count = 0])
               IN  /\ sessions' = [sessions EXCEPT ![sid] = s2]
                   /\ conns' = StaleConns(conns, sid, FALSE, r.kind = "done", None)
                   /\ out' = PassOut(sid, r)
       ELSE /\ conns[caller].state = "pass"
            /\ conns[caller].session = sid
            /\ LET r == broadcast_transcript(sessions[sid], conns[caller].bcast)
                   others == StaleConns(conns, sid, FALSE, r.kind = "done", caller)
               IN  /\ sessions' = [sessions EXCEPT ![sid] =
                                       StaleSession(r.session, FALSE, r.kind = "done")]
                   /\ conns' = IF r.kind = "send"
                               THEN [conns EXCEPT ![caller].bcast = r.bc]
                               ELSE [others EXCEPT ![caller].state = "open",
                                                  ![caller].bcast = NoPass]
                   /\ out' = PassOut(sid, r)
    /\ UNCHANGED <<now, next_id, meetings, transcripts, summaries, next_summary_id,
                   active_meetings, start_pending, tasks, stop_calls, llm_calls>>

\* a text frame.  "ping" is answered, an unknown action is logged; a "status"
\* action reads the attribute audio_byte_buffer, which TranscriptionService does
\* not have, and a payload json.loads rejects raises: both leave the receive loop
\* through "except Exception: break"
TextKinds == {"ping", "status", "unknown", "malformed"}

ReceiveText(c, kind) ==
    /\ conns[c].state = "open"
    /\ conns[c].alive
    /\ meetings' = update_last_activity(meetings, conns[c].meeting_id, now)
    /\ IF kind \in {"ping", "unknown"}
       THEN /\ out' = [Quiet EXCEPT !.reply = IF kind = "ping" THEN "pong" ELSE "none"]
            /\ UNCHANGED <<sessions, conns>>
       ELSE /\ sessions' = Cleanup(sessions, c)
            /\ conns' = [conns EXCEPT ![c] = ClosedConn]
            /\ out' = Quiet
    /\ UNCHANGED <<now, next_id, transcripts, summaries, next_summary_id,
                   active_meetings, start_pending, tasks, stop_calls, llm_calls>>

\* the client goes away: the connection is dead, the handler has not noticed
ClientLeaves(c) ==
    /\ conns[c].state \in {"open", "pass"}
    /\ conns[c].alive
    /\ conns' = [conns EXCEPT ![c].alive = FALSE]
    /\ out' = Quiet
    /\ UNCHANGED <<now, next_id, meetings, transcripts, summaries, next_summary_id,
                   active_meetings, sessions, start_pending, tasks, stop_calls, llm_calls>>

\* receive raises: the client went away, or stop() closed the connection
Disconnect(c) ==
    /\ conns[c].state = "open"
    /\ ~conns[c].alive
    /\ sessions' = Cleanup(sessions, c)
    /\ conns' = [conns EXCEPT ![c] = ClosedConn]
    /\ out' = Quiet
    /\ UNCHANGED <<now, next_id, meetings, transcripts, summaries, next_summary_id,
                   active_meetings, start_pending, tasks, stop_calls, llm_calls>>

\* ---------------------------------------------------------------- SummaryGenerator
\* class MeetingSummary: the columns of meeting_summaries (of them decisions,
\* action_items, follow_ups and created_at are left out: they go with key_points)
MeetingSummaryColumns == {"id", "meeting_id", "full_transcript", "key_points"}

\* db.add / db.commit of a MeetingSummary object: the table stores the attributes
\* that are columns.  Base is not among the sources; its constructor is taken to
\* accept the keywords generate_summary passes.
Stored(obj) == [c \in DOMAIN obj \cap MeetingSummaryColumns |-> obj[c]]

\* the attributes generate_summary gives a MeetingSummary object: after the
\* completion call returned (unavailable FALSE) the parsed sections, in the except
\* branch (unavailable TRUE) the flag and str(e), with the sections as they were
SummaryObject(id, m, full, key_points, unavailable) ==
    [id |-> id, meeting_id |-> m, full_transcript |-> full,
     key_points |-> IF unavailable THEN key_points ELSE "text",
     summary_unavailable |-> unavailable,
     error_message |-> IF unavailable THEN "error" ELSE "null"]

\* the row a new MeetingSummary object leaves in the table
SummaryRow(id, m, full, unavailable) ==
    Stored(SummaryObject(id, m, full, "null", unavailable))

HasRow(sums, id) == \E r \in sums : r.id = id

\* the row an updated MeetingSummary object leaves in the table
UpdateRow(sums, id, full, unavailable) ==
    {IF r.id = id
     THEN Stored(SummaryObject(id, r.meeting_id, full, r.key_points, unavailable))
     ELSE r : r \in sums}

\* generate_summary, the except branch: the row of the meeting is looked up again
\* and flagged, or a flagged row is inserted (which the foreign key may refuse
\* when the meeting is gone: fk)
GenFailure(db, m, fk) ==
    LET existing == FirstSummary(db.sums, m)
        full == get_full_transcript(transcripts, m)
    IN  IF existing # None
        THEN [sums |-> UpdateRow(db.sums, existing, full, TRUE), next |-> db.next]
        ELSE IF fk THEN db
        ELSE [sums |-> db.sums \cup {SummaryRow(db.next, m, full, TRUE)},
              next |-> db.next + 1]

\* generate_summary, the except branch, raises to its caller: only when its
\* insert is refused
GenRaises(db, m, fk) == FirstSummary(db.sums, m) = None /\ fk

\* generate_summary after the completion call returned a text: the row that was
\* read before the call is updated, or a new row is inserted.  An update of a row
\* that was deleted meanwhile and an insert the foreign key refuses raise, which
\* leads to the except branch.
GenSuccess(db, m, existing, full, fk) ==
    IF existing # None
    THEN IF HasRow(db.sums, existing)
         THEN [sums |-> UpdateRow(db.sums, existing, full, FALSE), next |-> db.next]
         ELSE GenFailure(db, m, fk)
    ELSE IF fk THEN GenFailure(db, m, fk)
    ELSE [sums |-> db.sums \cup {SummaryRow(db.next, m, full, FALSE)},
          next |-> db.next + 1]

\* generate_summary up to the completion call: "fail" the transcript is too
\* short, "return" a row exists and this is no retry, "llm" the call is made
GenBegin(sums, m, retry) ==
    LET full == get_full_transcript(transcripts, m)
        existing == FirstSummary(sums, m)
    IN  IF TooShort(full) THEN [kind |-> "fail", existing |-> None, full |-> full]
        ELSE IF existing # None /\ ~retry
        THEN [kind |-> "return", existing |-> existing, full |-> full]
        ELSE [kind |-> "llm", existing |-> existing, full |-> full]

\* what generate_summary(meeting_id) of stop_meeting_transcription did in the
\* step: it suspended in the completion call, returned the row it found,
\* returned a flagged row from its except branch, or raised
GenerateReplies == {"generate:llm", "generate:existing", "generate:flagged",
                    "generate:raised"}

\* ---------------------------------------------------------------- tasks
DoneTask == [kind |-> "none", meeting_id |-> None, force |-> FALSE, pc |-> "done",
             existing |-> None, full |-> 0]

\* a scheduled call stop_meeting_transcription(m, force)
StopTask(m, force) == [kind |-> "stop", meeting_id |-> m, force |-> force,
                       pc |-> "pending", existing |-> None, full |-> 0]

\* a retry request suspended in the completion call
RetryTask(m, g) == [kind |-> "retry", meeting_id |-> m, force |-> FALSE, pc |-> "llm",
                    existing |-> g.existing, full |-> g.full]

\* stop_meeting_transcription, lines 336-340: end_time is set
SetEndTime(ms, m, t) == IF m \in DOMAIN ms THEN [ms EXCEPT ![m].end_time = t] ELSE ms

\* the status is set to completed only when generate_summary returned
AfterSummary_SuccessOnly(ms, m, ok, t) ==
    IF ok THEN SetEndTime(update_meeting_status(ms, m, "completed", t), m, t)
    ELSE SetEndTime(ms, m, t)

\* stop_meeting_transcription after generate_summary: ok, it returned a summary;
\* otherwise it returned a row flagged summary_unavailable or raised.  Both
\* branches set the status to completed; then end_time is set
AfterSummary(ms, m, ok, t) ==
    SetEndTime(update_meeting_status(ms, m, "completed", t), m, t)

\* stop_meeting_transcription from "Update status to finalizing" to the completion
\* call or, when generate_summary does not make one, to the end
Finalize(t, fk) ==
    LET m == tasks[t].meeting_id
        ms1 == update_meeting_status(meetings, m, "finalizing", now)
        g == GenBegin(summaries, m, FALSE)
        db == [sums |-> summaries, next |-> next_summary_id]
        db2 == IF g.kind = "fail" THEN GenFailure(db, m, fk) ELSE db
    IN  IF g.kind = "llm"
        THEN /\ meetings' = ms1
             /\ tasks' = [tasks EXCEPT ![t].pc = "llm", ![t].existing = g.existing,
                                       ![t].full = g.full]
             /\ llm_calls' = [llm_calls EXCEPT ![m] = @ + 1]
             /\ out' = [Quiet EXCEPT !.reply = "generate:llm", !.id = m, !.llm = m]
             /\ UNCHANGED <<summaries, next_summary_id>>
        ELSE /\ meetings' = AfterSummary(ms1, m, g.kind = "return", now)
             /\ summaries' = db2.sums
             /\ next_summary_id' = db2.next
             /\ tasks' = [tasks EXCEPT ![t] = DoneTask]
             /\ out' = [Quiet EXCEPT !.id = m,
                           !.reply = IF g.kind = "return" THEN "generate:existing"
                                     ELSE IF GenRaises(db, m, fk) THEN "generate:raised"
                                     ELSE "generate:flagged"]
             /\ UNCHANGED llm_calls

\* TranscriptionService.stop up to its first await ws.close()
stop(s) == [s EXCEPT !.is_running = FALSE, !.temp_unlinked = TRUE]

\* stop_meeting_transcription starts running
StopRun(t) ==
    /\ t \in DOMAIN tasks
    /\ tasks[t].kind = "stop"
    /\ tasks[t].pc = "pending"
    /\ LET m == tasks[t].meeting_id
       IN  IF m \in DOMAIN active_meetings
           THEN LET sid == active_meetings[m]
                    list == sessions[sid].websocket_connections
                IN  /\ sessions' = [sessions EXCEPT ![sid] = stop(@)]
                    /\ stop_calls' = [stop_calls EXCEPT ![sid] = @ + 1]
                    /\ IF list # <<>>
                       THEN /\ conns' = [c \in Conns |->
                                           IF InList(c, list)
                                           THEN [conns[c] EXCEPT !.alive = FALSE]
                                           ELSE conns[c]]
                            /\ tasks' = [tasks EXCEPT ![t].pc = "closing"]
                            /\ out' = Quiet
                            /\ UNCHANGED <<meetings, summaries, next_summary_id,
                                           active_meetings, llm_calls>>
                       ELSE /\ active_meetings' =
                                  [k \in DOMAIN active_meetings \ {m} |-> active_meetings[k]]
                            /\ \E fk \in FkChoices(m) : Finalize(t, fk)
                            /\ UNCHANGED conns
           ELSE /\ \E fk \in FkChoices(m) : Finalize(t, fk)
                /\ UNCHANGED <<sessions, stop_calls, conns, active_meetings>>
    /\ UNCHANGED <<now, next_id, transcripts, start_pending>>

\* stop_meeting_transcription resumes after the connections were closed:
\* "del active_meetings[meeting_id]" raises KeyError when the entry is gone, which
\* the outer except logs
StopResume(t) ==
    /\ t \in DOMAIN tasks
    /\ tasks[t].pc = "closing"
    /\ LET m == tasks[t].meeting_id
       IN  IF m \in DOMAIN active_meetings
           THEN /\ active_meetings' =
                      [k \in DOMAIN active_meetings \ {m} |-> active_meetings[k]]
                /\ \E fk \in FkChoices(m) : Finalize(t, fk)
           ELSE /\ tasks' = [tasks EXCEPT ![t] = DoneTask]
                /\ out' = [Quiet EXCEPT !.reply = "stop:KeyError", !.id = m]
                /\ UNCHANGED <<meetings, summaries, next_summary_id, active_meetings,
                               llm_calls>>
    /\ UNCHANGED <<now, next_id, transcripts, sessions, start_pending, conns, stop_calls>>

\* the completion call in the executor returns (ok) or raises; generate_summary
\* writes the row; stop_meeting_transcription then settles the meeting, the retry
\* request replies
LlmReturn(t, ok) ==
    /\ t \in DOMAIN tasks
    /\ tasks[t].pc = "llm"
    /\ LET m == tasks[t].meeting_id
           db == [sums |-> summaries, next |-> next_summary_id]
       IN  /\ \E fk \in FkChoices(m) :
                 LET db2 == IF ok
                            THEN GenSuccess(db, m, tasks[t].existing, tasks[t].full, fk)
                            ELSE GenFailure(db, m, fk)
                 IN  /\ summaries' = db2.sums
                     /\ next_summary_id' = db2.next
           /\ meetings' = IF tasks[t].kind = "stop"
                          THEN AfterSummary(meetings, m, ok, now)
                          ELSE meetings
           /\ out' = [Quiet EXCEPT !.id = m,
                         !.reply = IF tasks[t].kind = "retry" THEN "summary"
                                   ELSE IF ok THEN "stop:summary"
                                   ELSE "stop:llm_failed"]
    /\ tasks' = [tasks EXCEPT ![t] = DoneTask]
    /\ UNCHANGED <<now, next_id, transcripts, active_meetings, sessions, start_pending,
                   conns, stop_calls, llm_calls>>

\* ---------------------------------------------------------------- control surface
\* the query of join_meeting with "finalizing" left out of the status filter
ExistingSessions_ActiveOnly(u, l) ==
    {m \in Ids : /\ meetings[m].user_id = u
                 /\ meetings[m].meet_link = l
                 /\ meetings[m].status = "active"}

\* the query of join_meeting: the caller's meetings for the link that are active
\* or finalizing (.first() returns any one of them)
ExistingSessions(u, l) ==
    {m \in Ids : /\ meetings[m].user_id = u
                 /\ meetings[m].meet_link = l
                 /\ meetings[m].status \in {"active", "finalizing"}}

MinOf(S) == CHOOSE x \in S : \A y \in S : x <= y

\* POST /meetings/join
join_meeting(u, l, B) ==
    /\ IF ExistingSessions(u, l) # {}
       THEN /\ \E existing \in ExistingSessions(u, l) :
                   out' = [Quiet EXCEPT !.reply = "existing", !.user = u, !.link = l,
                                        !.id = existing]
            /\ UNCHANGED <<meetings, next_id, start_pending>>
       ELSE /\ next_id <= B.meetings
            /\ meetings' = create_meeting_session(meetings, next_id, u, l, None, TRUE, now)
            /\ next_id' = next_id + 1
            /\ start_pending' = start_pending \cup {next_id}
            /\ out' = [Quiet EXCEPT !.reply = "created", !.user = u, !.link = l,
                                    !.id = next_id]
    /\ UNCHANGED <<now, transcripts, summaries, next_summary_id, active_meetings,
                   sessions, tasks, conns, stop_calls, llm_calls>>

\* MeetingService.get_meeting
get_meeting(m, u) == m \in Ids /\ meetings[m].user_id = u

\* POST /meetings/{id}/stop
stop_meeting(u, m, B) ==
    /\ IF ~get_meeting(m, u)
       THEN /\ out' = [Quiet EXCEPT !.reply = "404", !.id = m]
            /\ UNCHANGED tasks
       ELSE IF meetings[m].status \notin {"active", "finalizing"}
       THEN /\ out' = [Quiet EXCEPT !.reply = "400", !.id = m]
            /\ UNCHANGED tasks
       ELSE /\ Len(tasks) < B.tasks
            /\ tasks' = Append(tasks, StopTask(m, FALSE))
            /\ out' = [Quiet EXCEPT !.reply = "stopping", !.id = m]
    /\ UNCHANGED <<now, next_id, meetings, transcripts, summaries, next_summary_id,
                   active_meetings, sessions, start_pending, conns, stop_calls, llm_calls>>

\* POST /meetings/{id}/summary/retry up to the completion call
retry_summary_generation(u, m, B) ==
    /\ IF ~get_meeting(m, u)
       THEN /\ out' = [Quiet EXCEPT !.reply = "retry:404", !.id = m, !.user = u]
            /\ UNCHANGED tasks
       ELSE IF \/ meetings[m].status \notin {"completed", "finalizing"}
               \/ TooShort(get_full_transcript(transcripts, m))
       THEN /\ out' = [Quiet EXCEPT !.reply = "retry:400", !.id = m, !.user = u]
            /\ UNCHANGED tasks
       ELSE /\ Len(tasks) < B.tasks
            /\ LET g == GenBegin(summaries, m, TRUE)
               IN  tasks' = Append(tasks, RetryTask(m, g))
            /\ out' = [Quiet EXCEPT !.reply = "retry:llm", !.id = m, !.user = u,
                                    !.llm = m]
    /\ UNCHANGED <<now, next_id, meetings, transcripts, summaries, next_summary_id,
                   active_meetings, sessions, start_pending, conns, stop_calls, llm_calls>>

\* DELETE /meetings/{id}.  The cascade removes the meeting's transcript rows and
\* the one summary row the relationship (uselist=False) loads.  A second summary
\* row stays behind: an engine that enforces the foreign key refuses the delete
\* (fk), another keeps the row without its meeting.
delete_meeting(u, m, fk, B) ==
    /\ IF ~get_meeting(m, u)
       THEN /\ out' = [Quiet EXCEPT !.reply = "404", !.id = m]
            /\ UNCHANGED <<meetings, transcripts, summaries, tasks>>
       ELSE IF fk /\ Cardinality(SummariesOf(summaries, m)) > 1
       THEN /\ out' = [Quiet EXCEPT !.reply = "500", !.id = m]
            /\ UNCHANGED <<meetings, transcripts, summaries, tasks>>
       ELSE /\ ~fk
            /\ IF m \in DOMAIN active_meetings
               THEN /\ Len(tasks) < B.tasks
                    /\ tasks' = Append(tasks, StopTask(m, TRUE))
               ELSE UNCHANGED tasks
            /\ meetings' = [k \in Ids \ {m} |-> meetings[k]]
            /\ transcripts' = SelectSeq(transcripts, LAMBDA r : r.meeting_id # m)
            /\ summaries' = {r \in summaries : r.id # FirstSummary(summaries, m)}
            /\ out' = [Quiet EXCEPT !.reply = "deleted", !.id = m]
    /\ UNCHANGED <<now, next_id, next_summary_id, active_meetings, sessions,
                   start_pending, conns, stop_calls, llm_calls>>

\* ---------------------------------------------------------------- background loops
\* poll_calendar_for_meetings, one event of one user in one tick
CalendarMeetings(u, e) ==
    {m \in Ids : meetings[m].user_id = u /\ meetings[m].calendar_event_id = e}

poll_calendar_for_meetings(u, e, B) ==
    /\ CalendarMeetings(u, e) = {}
    /\ next_id <= B.meetings
    /\ meetings' = create_meeting_session(meetings, next_id, u, EventLink(e), e, FALSE, now)
    /\ next_id' = next_id + 1
    /\ start_pending' = start_pending \cup {next_id}
    /\ out' = Quiet
    /\ UNCHANGED <<now, transcripts, summaries, next_summary_id, active_meetings,
                   sessions, tasks, conns, stop_calls, llm_calls>>

\* check_inactive_sessions, one tick: a stop task is created for every active
\* meeting whose last_activity is before the cutoff
RECURSIVE StopTasksFor(_)
StopTasksFor(S) ==
    IF S = {} THEN <<>> ELSE <<StopTask(MinOf(S), TRUE)>> \o StopTasksFor(S \ {MinOf(S)})

InactiveMeetings ==
    {m \in Ids : /\ meetings[m].status = "active"
                 /\ meetings[m].last_activity < now - GRACE_PERIOD}

check_inactive_sessions(B) ==
    /\ Len(tasks) + Cardinality(InactiveMeetings) <= B.tasks
    /\ tasks' = tasks \o StopTasksFor(InactiveMeetings)
    /\ out' = [Quiet EXCEPT !.reply = "monitor"]
    /\ UNCHANGED <<now, next_id, meetings, transcripts, summaries, next_summary_id,
                   active_meetings, sessions, start_pending, conns, stop_calls, llm_calls>>

\* time passes
Tick ==
    /\ now + TickStep <= MaxTime
    /\ now' = now + TickStep
    /\ out' = Quiet
    /\ UNCHANGED <<next_id, meetings, transcripts, summaries, next_summary_id,
                   active_meetings, sessions, start_pending, tasks, conns,
                   stop_calls, llm_calls>>

\* ---------------------------------------------------------------- specification
\* the state after startup_event: empty tables, an empty registry, no connection
InitB(B) ==
    /\ now = 0
    /\ next_id = 1
    /\ meetings = <<>>
    /\ transcripts = <<>>
    /\ summaries = {}
    /\ next_summary_id = 1
    /\ active_meetings = <<>>
    /\ sessions = <<>>
    /\ start_pending = {}
    /\ tasks = <<>>
    /\ conns = [c \in Conns |-> NewConn]
    /\ stop_calls = <<>>
    /\ llm_calls = [m \in 1..B.meetings |-> 0]
    /\ out = Quiet

\* the program as main.py starts it: startup_event creates the calendar polling
\* task and no task for check_inactive_sessions
Step(B) ==
    \/ \E u \in Users, l \in Links : join_meeting(u, l, B)
    \/ \E u \in Users, m \in 1..B.meetings : stop_meeting(u, m, B)
    \/ \E u \in Users, m \in 1..B.meetings : retry_summary_generation(u, m, B)
    \/ \E u \in Users, m \in 1..B.meetings, fk \in BOOLEAN : delete_meeting(u, m, fk, B)
    \/ \E u \in Users, e \in CalendarEvents : poll_calendar_for_meetings(u, e, B)
    \/ \E m \in 1..B.meetings : StartTranscription(m)
    \/ \E sid \in 1..MaxSessions : TimerWake(sid)
    \/ \E sid \in 1..MaxSessions, caller \in {Timer} \cup Conns : PassResume(sid, caller)
    \/ \E sid \in 1..MaxSessions : BackoffWake(sid)
    \/ \E c \in Conns, m \in 1..B.meetings : Connect(c, m, B)
    \/ \E c \in Conns : ReceiveBytes(c, B)
    \/ \E c \in Conns, kind \in TextKinds : ReceiveText(c, kind)
    \/ \E c \in Conns : ClientLeaves(c)
    \/ \E c \in Conns : Disconnect(c)
    \/ \E t \in 1..B.tasks : StopRun(t)
    \/ \E t \in 1..B.tasks : StopResume(t)
    \/ \E t \in 1..B.tasks, ok \in BOOLEAN : LlmReturn(t, ok)

\* The timestamps the program writes are read by check_inactive_sessions alone,
\* which this program never runs: Spec and SpecJoin take the clock as it stands.
Init == InitB(Bounds(MaxMeetings, MaxBuffer, MaxTasks, OneConn))
Next == Step(Bounds(MaxMeetings, MaxBuffer, MaxTasks, OneConn))
Spec == Init /\ [][Next]_vars

InitJoin == InitB(Bounds(JoinMeetings, FewFrames, JoinTasks, OneConn))
NextJoin == Step(Bounds(JoinMeetings, FewFrames, JoinTasks, OneConn))
SpecJoin == InitJoin /\ [][NextJoin]_vars

\* start_meeting_transcription as an operation of its own: it may be called for a
\* meeting id that is in the registry
InitRegister == InitB(Bounds(OneMeeting, FewFrames, OneTask, OneConn))
NextRegister ==
    \/ Step(Bounds(OneMeeting, FewFrames, OneTask, OneConn))
    \/ \E m \in 1..OneMeeting : Register(m)
SpecRegister == InitRegister /\ [][NextRegister]_vars

\* one meeting with two subscribers of its session
InitBroadcast == InitB(Bounds(OneMeeting, FewFrames, OneTask, TwoConns))
NextBroadcast == Step(Bounds(OneMeeting, FewFrames, OneTask, TwoConns))
SpecBroadcast == InitBroadcast /\ [][NextBroadcast]_vars

\* the program with check_inactive_sessions running as a task, and the clock
InitMonitor == InitB(Bounds(OneMeeting, FewFrames, OneTask, OneConn))
NextMonitor ==
    \/ Step(Bounds(OneMeeting, FewFrames, OneTask, OneConn))
    \/ check_inactive_sessions(Bounds(OneMeeting, FewFrames, OneTask, OneConn))
    \/ Tick
SpecMonitor == InitMonitor /\ [][NextMonitor]_vars

\* the program as main.py starts it, with the clock and with the scheduling of
\* the event loop: a task that can run does run, a sleep ends, an awaited call
\* returns.  What clients do is not forced.
InitFair == InitB(Bounds(OneMeeting, FewFrames, OneTask, OneConn))
NextFair ==
    \/ Step(Bounds(OneMeeting, FewFrames, OneTask, OneConn))
    \/ Tick
Fairness ==
    /\ \A m \in 1..OneMeeting : WF_vars(StartTranscription(m))
    /\ \A sid \in 1..OneMeeting :
          /\ WF_vars(TimerWake(sid))
          /\ WF_vars(BackoffWake(sid))
          /\ WF_vars(PassResume(sid, Timer))
    /\ \A t \in 1..OneTask :
          /\ WF_vars(StopRun(t))
          /\ WF_vars(StopResume(t))
          /\ WF_vars(\E ok \in BOOLEAN : LlmReturn(t, ok))
    /\ WF_vars(Tick)
FairSpec == InitFair /\ [][NextFair]_vars /\ Fairness

\* ---------------------------------------------------------------- claims
\* the meeting ids that have rows in meeting_transcripts
ChunkMeetings == {transcripts[i].meeting_id : i \in 1..Len(transcripts)}

\* C1: for every meeting, the sequence numbers of its persisted chunks, in the
\* order the chunks were persisted, are strictly increasing (so no two are equal),
\* and the first chunk of a meeting has number 1, whatever the interleaving of
\* event-driven and timer-driven passes.
C1_SequenceNumbers ==
    \A m \in ChunkMeetings :
        LET cs == ChunksOf(transcripts, m)
        IN  /\ \A i \in 1..(Len(cs) - 1) :
                   cs[i].sequence_number < cs[i + 1].sequence_number
            /\ m \in Ids => cs[1].sequence_number = 1

\* C1 witness: an event-driven pass and a timer-driven pass of one session are
\* both suspended in their broadcast, and the meeting has two chunks
C1_Witness ==
    \E sid \in DOMAIN sessions, c \in Conns :
        /\ sessions[sid].loop = "pass"
        /\ conns[c].state = "pass"
        /\ conns[c].session = sid
        /\ sessions[sid].meeting_id \in Ids
        /\ Len(ChunksOf(transcripts, sessions[sid].meeting_id)) = 2

\* C2 (as the claim states it): however often stop is invoked for a meeting,
\* TranscriptionService.stop() runs at most once on its session and the stop
\* invocations make at most one completion call.
C2_StopOnce ==
    /\ \A sid \in DOMAIN stop_calls : stop_calls[sid] <= 1
    /\ \A m \in DOMAIN llm_calls : llm_calls[m] <= 1

\* a session whose transcription_loop ended on max_retries failures
SelfTerminated(sid) ==
    /\ sessions[sid].loop = "done"
    /\ sessions[sid].retry_count >= max_retries

\* C6 (as the claim states it): when the loop of a session has ended on 4
\* consecutive failures, the session is not running and its meeting has status
\* failed.
C6_FailedAfterRetries ==
    \A sid \in DOMAIN sessions :
        (SelfTerminated(sid) /\ sessions[sid].meeting_id \in Ids)
            => /\ ~sessions[sid].is_running
               /\ meetings[sessions[sid].meeting_id].status = "failed"

\* C7 (as the claim states it): no step taken after a session self-terminated
\* calls the speech-to-text engine for it, persists a chunk of its meeting or
\* delivers a broadcast to one of its subscribers.
C7_NoPassAfterSelfTermination ==
    [][\A sid \in DOMAIN sessions :
          SelfTerminated(sid) =>
              /\ out'.stt # sid
              /\ Len(ChunksOf(transcripts', sessions[sid].meeting_id))
                     <= Len(ChunksOf(transcripts, sessions[sid].meeting_id))
              /\ \A c \in out'.sent : conns[c].session # sid]_vars

\* C10 (as the claim states it): a meeting never has more than one row in
\* meeting_summaries.
C10_OneSummary ==
    \A r \in summaries : Cardinality(SummariesOf(summaries, r.meeting_id)) <= 1

\* the meetings of user u for link l that are active or finalizing
C4_Matching(u, l) ==
    {m \in Ids : /\ meetings[m].user_id = u
                 /\ meetings[m].meet_link = l
                 /\ (meetings[m].status = "active" \/ meetings[m].status = "finalizing")}

\* C4: a join request of a user for a link for which the user has a meeting in
\* status active or finalizing answers with the id of such a meeting, and the
\* step creates no meeting row, schedules no start of a session and leaves the
\* registry as it is.
C4_JoinIdempotent ==
    [][(/\ out'.reply \in {"existing", "created"}
        /\ C4_Matching(out'.user, out'.link) # {})
          => /\ out'.id \in C4_Matching(out'.user, out'.link)
             /\ DOMAIN meetings' = DOMAIN meetings
             /\ next_id' = next_id
             /\ start_pending' = start_pending
             /\ active_meetings' = active_meetings]_vars

\* C4 witness: a join was answered with the id of a meeting that is finalizing
C4_Witness ==
    /\ out.reply = "existing"
    /\ out.id \in Ids
    /\ meetings[out.id].status = "finalizing"
    /\ meetings[out.id].user_id = out.user
    /\ meetings[out.id].meet_link = out.link

\* a call of stop_meeting_transcription for meeting m was scheduled and has not
\* returned
StopInvoked(m) ==
    \E t \in DOMAIN tasks : /\ tasks[t].kind = "stop"
                            /\ tasks[t].meeting_id = m
                            /\ tasks[t].pc # "done"

\* C3: once stop was invoked for a meeting, the meeting eventually has status
\* completed or failed (or was deleted, when the stop came from delete): it does
\* not stay in finalizing, whether the completion call returns or raises.
C3_StopSettles ==
    \A m \in 1..OneMeeting :
        StopInvoked(m) ~> (m \notin Ids \/ meetings[m].status \in {"completed", "failed"})

\* C3 witness: summarization failed (the except branch of generate_summary
\* inserted a row without sections), the stop has returned and the meeting is
\* completed
C3_Witness ==
    \E m \in Ids :
        /\ meetings[m].status = "completed"
        /\ ~StopInvoked(m)
        /\ \E r \in summaries : r.meeting_id = m /\ r.key_points = "null"

Stale(m) ==
    /\ m \in Ids
    /\ meetings[m].status = "active"
    /\ meetings[m].last_activity < now - GRACE_PERIOD

\* C8 (as the claim states it): a meeting that is active with its last activity
\* older than the grace period does not stay so: eventually it is stopped (it
\* leaves status active) or it has activity again.
C8_InactiveStopped ==
    \A m \in 1..OneMeeting : Stale(m) ~> ~Stale(m)

C12_StatusOrder ==
    [][\A m \in Ids \cap DOMAIN meetings' :
          /\ meetings[m].status \in {"completed", "failed"}
                => meetings'[m].status = meetings[m].status
          /\ meetings[m].status = "finalizing"
                => meetings'[m].status \in {"finalizing", "completed", "failed"}]_vars

\* the row of meeting m was created and has been deleted
Deleted(m) == m \in 1..(next_id - 1) /\ m \notin Ids

\* C13 (as the claim states it): once the row of a meeting is deleted, the
\* registry has no entry for it, no session of it is running and no chunk of
\* it is persisted.
C13_StoppedBeforeDelete ==
    \A m \in 1..(next_id - 1) :
        Deleted(m) =>
            /\ m \notin DOMAIN active_meetings
            /\ \A sid \in DOMAIN sessions :
                   sessions[sid].meeting_id = m => ~sessions[sid].is_running
            /\ ChunksOf(transcripts, m) = <<>>

\* C14 (as the claim states it): when a meeting is deleted and every stop
\* scheduled for it has returned, no row of meeting_transcripts and no row of
\* meeting_summaries refers to it.
C14_DeleteCascades ==
    \A m \in 1..(next_id - 1) :
        (Deleted(m) /\ ~StopInvoked(m)) =>
            /\ ChunksOf(transcripts, m) = <<>>
            /\ SummariesOf(summaries, m) = {}

\* C15 (as the claim states it): a session never has a timer-driven pass and an
\* event-driven pass in progress at the same time.
C15_OnePassAtATime ==
    \A sid \in DOMAIN sessions :
        ~(/\ sessions[sid].loop = "pass"
          /\ \E c \in Conns : conns[c].state = "pass" /\ conns[c].session = sid)

\* C16 (as the claim states it): a session on which stop() has run and which
\* is out of the registry has an empty audio buffer.
C16_FinalFlush ==
    \A sid \in DOMAIN sessions :
        (/\ stop_calls[sid] >= 1
         /\ \A m \in DOMAIN active_meetings : active_meetings[m] # sid)
            => sessions[sid].audio_buffer = <<>>

\* C19 (as the claim states it): no user has two meetings in status active or
\* finalizing for the same link.
C19_OneLiveMeetingPerLink ==
    \A m1, m2 \in Ids :
        (/\ m1 # m2
         /\ meetings[m1].user_id = meetings[m2].user_id
         /\ meetings[m1].meet_link = meetings[m2].meet_link
         /\ meetings[m1].status \in {"active", "finalizing"})
            => meetings[m2].status \notin {"active", "finalizing"}

\* C18: the chunks persisted for a meeting, in the order they were persisted,
\* carry the numbers 1, 2, ..., n: passes that fail or return an empty text, from
\* the timer or from a frame, leave no gap.
C18_NoGap ==
    \A m \in Ids :
        \A i \in 1..Len(ChunksOf(transcripts, m)) :
            ChunksOf(transcripts, m)[i].sequence_number = i

\* C18 witness: after a timer pass failed, an event-driven pass persisted the
\* second chunk of the meeting and is suspended in its broadcast
C18_Witness ==
    \E sid \in DOMAIN sessions, c \in Conns :
        /\ sessions[sid].retry_count >= 1
        /\ conns[c].state = "pass"
        /\ conns[c].session = sid
        /\ sessions[sid].meeting_id \in Ids
        /\ Len(ChunksOf(transcripts, sessions[sid].meeting_id)) = 2
        /\ sessions[sid].sequence_number = 2

\* the total length of the non-empty chunk texts of meeting m joined by "\n"
RECURSIVE TranscriptLength(_, _)
TranscriptLength(ts, m) ==
    IF ts = <<>> THEN 0
    ELSE LET rest == TranscriptLength(Tail(ts), m)
             t == IF Head(ts).meeting_id = m THEN Head(ts).text ELSE 0
         IN  IF t = 0 THEN rest ELSE IF rest = 0 THEN t ELSE t + 1 + rest

\* the retry request of user u for meeting m is to be accepted
C20_Acceptable(u, m) ==
    /\ m \in Ids
    /\ meetings[m].user_id = u
    /\ meetings[m].status = "completed" \/ meetings[m].status = "finalizing"
    /\ TranscriptLength(transcripts, m) >= 10

\* C20: a retry-summary request gets a client error (404 or 400), makes no
\* completion call and changes neither meeting_summaries nor the running
\* requests, when the meeting is not the caller's, its status is not completed
\* or finalizing, or its transcript is shorter than 10 characters; every other
\* retry request is accepted and makes the completion call.
C20_RetryAcceptance ==
    [][out'.reply \in {"retry:404", "retry:400", "retry:llm"} =>
          IF C20_Acceptable(out'.user, out'.id)
          THEN /\ out'.reply = "retry:llm"
               /\ out'.llm = out'.id
          ELSE /\ out'.reply \in {"retry:404", "retry:400"}
               /\ out'.llm = None
               /\ summaries' = summaries
               /\ tasks' = tasks]_vars

\* C20 witness: a retry for a completed meeting whose transcript is one chunk of
\* 5 characters was rejected
C20_Witness ==
    /\ out.reply = "retry:400"
    /\ out.id \in Ids
    /\ meetings[out.id].status = "completed"
    /\ Len(ChunksOf(transcripts, out.id)) = 1
    /\ TranscriptLength(transcripts, out.id) = 5

\* C11 (as the claim states it): when the completion call of the summary
\* generation a stop started fails, the meeting has a row in meeting_summaries
\* with summary_unavailable true, a non-empty error_message and the transcript,
\* and the meeting is completed.
C11_FailureRecorded ==
    [][(out'.reply = "stop:llm_failed" /\ out'.id \in DOMAIN meetings') =>
          /\ meetings'[out'.id].status = "completed"
          /\ \E r \in summaries' :
                 /\ r.meeting_id = out'.id
                 /\ r.full_transcript = TranscriptLength(transcripts', out'.id)
                 /\ "summary_unavailable" \in DOMAIN r
                 /\ r.summary_unavailable = TRUE
                 /\ "error_message" \in DOMAIN r
                 /\ r.error_message # "null"]_vars

\* C17: a broadcast in which the send to a subscriber failed ends with the pass
\* successful (transcribe_buffer does not raise, the buffer is cleared so the
\* audio is not transcribed again), with every other subscriber of the session
\* that is still subscribed having received the broadcast, and with the failing
\* connections out of the subscriber list -- also when the failing subscriber's
\* handler ends while the broadcast is in progress
C17_BroadcastSurvivesFailure ==
    [][(out'.reply \in {"pass:done", "pass:raised"} /\ out'.failed # {}) =>
          LET subscribers == SetOf(sessions'[out'.id].websocket_connections)
          IN  /\ out'.reply = "pass:done"
              /\ sessions'[out'.id].audio_buffer = <<>>
              /\ \A c \in (out'.subs \ out'.failed) \cap subscribers : c \in out'.got
              /\ out'.failed \cap subscribers = {}]_vars

\* C21 (as the claim states it): when generate_summary(meeting_id) with retry
\* false runs for a meeting that has a row in meeting_summaries, it makes no
\* completion call and leaves every row of meeting_summaries as it is.
C21_ExistingReturned ==
    [][(/\ out'.reply \in GenerateReplies
        /\ out'.id \in Ids
        /\ SummariesOf(summaries, out'.id) # {})
          => /\ out'.llm = None
             /\ llm_calls' = llm_calls
             /\ summaries' = summaries]_vars

\* C22 (as the claim states it): when generate_summary runs for a meeting whose
\* transcript is shorter than 10 characters, it raises to its caller and makes
\* no completion call.
C22_TooShortReported ==
    [][(/\ out'.reply \in GenerateReplies
        /\ out'.id \in Ids
        /\ TranscriptLength(transcripts, out'.id) < 10)
          => /\ out'.reply = "generate:raised"
             /\ out'.llm = None
             /\ llm_calls' = llm_calls]_vars

\* C23 (as the claim states it): a stop that resumes after it closed the
\* connections goes on to the summary generation, whether the registry still has
\* the entry of its meeting or a concurrent stop has removed it.
C23_UnregisterIdempotent ==
    [][\A t \in DOMAIN tasks :
          (tasks[t].pc = "closing" /\ tasks'[t].pc # "closing")
              => out'.reply \in GenerateReplies]_vars

\* C24 (as the claim states it): after a text frame with an unknown action or
\* with a payload that is not JSON, the connection is open and, if it was in the
\* subscriber list of its session, still is.
C24_TextFrameIgnored ==
    [][\A c \in Conns, kind \in {"unknown", "malformed"} :
          ReceiveText(c, kind)
              => /\ conns'[c].state = "open"
                 /\ conns'[c].alive
                 /\ InList(c, sessions[conns[c].session].websocket_connections)
                       => InList(c, sessions'[conns[c].session].websocket_connections)]_vars

\* C25 (as the claim states it): the engine call is handed off, so that frames
\* can be received while it is in progress: the step that makes the call for a
\* session leaves the pass suspended in the call and does not yet act on its
\* result (it persists no chunk, assigns no number, counts no failure and keeps
\* the buffer).
C25_CallHandedOff ==
    [][\A sid \in DOMAIN sessions :
          out'.stt = sid
              => /\ transcripts' = transcripts
                 /\ sessions'[sid].sequence_number = sessions[sid].sequence_number
                 /\ sessions'[sid].retry_count = sessions[sid].retry_count
                 /\ sessions'[sid].audio_buffer # <<>>]_vars

\* C26 (as the claim states it): when a pass that was suspended in its
\* broadcast ends and clears audio_buffer, the buffer holds no frame that was
\* appended after the last engine call.
C26_NoAudioLost ==
    [][(out'.reply = "pass:done" /\ out'.stt = None /\ out'.id \in DOMAIN sessions)
          => /\ (sessions[out'.id].loop = "pass" /\ sessions'[out'.id].loop # "pass")
                   => ~sessions[out'.id].bcast.stale
             /\ \A c \in Conns :
                   (/\ conns[c].state = "pass"
                    /\ conns[c].session = out'.id
                    /\ conns'[c].state # "pass")
                       => ~conns[c].bcast.stale]_vars

\* stop() has run on session sid and has returned
StopCompleted(sid) ==
    /\ stop_calls[sid] >= 1
    /\ \A t \in DOMAIN tasks :
           tasks[t].pc = "closing" => tasks[t].meeting_id # sessions[sid].meeting_id

\* C27 (as the claim states it): no step taken after stop() has returned on a
\* session calls the speech-to-text engine for it, persists a chunk of its
\* meeting or delivers a broadcast to one of its subscribers.
C27_NoPassAfterStop ==
    [][\A sid \in DOMAIN sessions :
          StopCompleted(sid) =>
              /\ out'.stt # sid
              /\ Len(ChunksOf(transcripts', sessions[sid].meeting_id))
                     <= Len(ChunksOf(transcripts, sessions[sid].meeting_id))
              /\ \A c \in out'.sent : conns[c].session # sid]_vars

\* C28 (as the claim states it): the failure counter of a session never exceeds
\* 4, every pass that fails, started by the timer or by a frame, adds one to it,
\* and only a pass that succeeds lowers it.
C28_FailuresCounted ==
    [][\A sid \in DOMAIN sessions :
          /\ sessions'[sid].retry_count <= max_retries
          /\ (out'.reply = "pass:raised" /\ out'.id = sid)
                => sessions'[sid].retry_count = sessions[sid].retry_count + 1
          /\ sessions'[sid].retry_count < sessions[sid].retry_count
                => (out'.reply = "pass:done" /\ out'.id = sid)]_vars

\* C29 (as the claim states it): every session in the registry is running,
\* unless a stop is closing its connections and is about to remove the entry.
C29_RegisteredRunning ==
    \A m \in DOMAIN active_meetings :
        \/ sessions[active_meetings[m]].is_running
        \/ \E t \in DOMAIN tasks : tasks[t].pc = "closing" /\ tasks[t].meeting_id = m

\* C30 (as the claim states it): every meeting id in the registry is the id of
\* a row of meetings whose status is active.
C30_RegisteredActive ==
    \A m \in DOMAIN active_meetings : m \in Ids /\ meetings[m].status = "active"
====
